---- MODULE Spec2Model ----
(***************************************************************************)
(* QueueManager.cpp: byte FIFO queues sharing one statically allocated     *)
(* storage block.  The block is viewed as a table of queue descriptors, a  *)
(* record of allocator state and a pool of linked fixed-size segments.     *)
(*                                                                         *)
(* The sizes of the source (64 descriptors, 95 segments, 14 payload bytes  *)
(* per segment) are scaled down to the bounds below; every other part of   *)
(* the code is modelled statement by statement.  std::exit(1) is modelled  *)
(* by the variable fault becoming non-"none", after which nothing runs.    *)
(***************************************************************************)
EXTENDS Integers, Sequences, FiniteSets, TLC

\* Scaled sizes (src/QueueManager.cpp:10, :16, :18).
MAX_QUEUES == 2
SEG_PAYLOAD_SIZE == 2
SEGMENT_COUNT == 2

\* #define INVALID_INDEX UINT16_MAX
INVALID_INDEX == 65535

\* Byte values a caller passes to enqueue_byte; 0 is also what the
\* zero-initialised block holds where nothing was written yet.
Byte == {0, 1}

Slots == 0 .. (MAX_QUEUES - 1)
SegIdx == 0 .. (SEGMENT_COUNT - 1)

\* Q* arguments: a pointer to descriptor i is i; nullptr; and (for
\* destroy_queue, which range-checks) a pointer just past the table.
ForeignHandle == MAX_QUEUES
NullHandle == MAX_QUEUES + 1

VARIABLES
    descriptors,   \* Q descriptors[MAX_QUEUES]
    global_data,   \* GlobalData
    segments,      \* Segment segments[SEGMENT_COUNT]
    fault,         \* "none", or how the process ended
    pending,       \* history, kept while legal: bytes enqueued and not yet dequeued, per slot
    everEnq,       \* history, kept while legal: byte values enqueued into the slot's queue since create_queue
    freeStack,     \* history: segments passed to free_segment and not re-allocated since, newest first
    destroyed,     \* history: the slot's queue was destroyed at least once (a stale handle exists)
    legal,         \* history: so far every dequeue_byte was issued on a queue holding a byte
    last           \* history: the call just made and what it returned

vars == <<descriptors, global_data, segments, fault, pending, everEnq, freeStack, destroyed, legal, last>>

\* unsigned char data[2048] = {0};
ZeroQ == [head_segment |-> 0, tail_segment |-> 0, head_offset |-> 0, tail_offset |-> 0, in_use |-> 0]
ZeroGlobalData == [free_list_head |-> 0, next_unused |-> 0, initialized |-> 0]
ZeroSegment == [next |-> 0, data |-> [i \in 0 .. (SEG_PAYLOAD_SIZE - 1) |-> 0]]

\* The memory an operation works on, with the result it returns.
Machine ==
    [d |-> descriptors, g |-> global_data, s |-> segments, fault |-> "none",
     stack |-> freeStack, ret |-> 0]

Without(seq, x) == SelectSeq(seq, LAMBDA y : y # x)

\* on_out_of_memory / on_illegal_operation: print and std::exit(1).
on_out_of_memory(m) == [m EXCEPT !.fault = "oom"]
on_illegal_operation(m) == [m EXCEPT !.fault = "illegal"]
\* seg(idx) with idx outside the pool: an access outside segments[].
OutOfBounds(m) == [m EXCEPT !.fault = "oob"]

\* Variant: the ceiling test is off by one.
HasUnusedSegmentOffByOne(g) == g.next_unused <= SEGMENT_COUNT

\* Line 104: a never-used segment remains.
HasUnusedSegment(g) == g.next_unused < SEGMENT_COUNT

\* Variant: never-used segments are handed out before the free list is tried.
allocate_segment_bump_first(m) ==
    LET m1 == IF m.g.initialized = 0
              THEN [m EXCEPT !.g = [free_list_head |-> INVALID_INDEX, next_unused |-> 0, initialized |-> 1]]
              ELSE m
    IN  IF HasUnusedSegment(m1.g)
        THEN LET idx == m1.g.next_unused
             IN  [m1 EXCEPT !.g.next_unused = idx + 1,
                            !.ret = idx,
                            !.stack = Without(@, idx)]
        ELSE IF m1.g.free_list_head # INVALID_INDEX
        THEN LET idx == m1.g.free_list_head
             IN  IF idx \notin SegIdx THEN OutOfBounds(m1)
                 ELSE [m1 EXCEPT !.g.free_list_head = m1.s[idx].next,
                                 !.ret = idx,
                                 !.stack = Without(@, idx)]
        ELSE on_out_of_memory(m1)

allocate_segment(m) ==
    LET m1 == IF m.g.initialized = 0
              THEN [m EXCEPT !.g = [free_list_head |-> INVALID_INDEX, next_unused |-> 0, initialized |-> 1]]
              ELSE m
    IN  IF m1.g.free_list_head # INVALID_INDEX
        THEN LET idx == m1.g.free_list_head
             IN  IF idx \notin SegIdx THEN OutOfBounds(m1)
                 ELSE [m1 EXCEPT !.g.free_list_head = m1.s[idx].next,
                                 !.ret = idx,
                                 !.stack = Without(@, idx)]
        ELSE IF HasUnusedSegment(m1.g)
        THEN LET idx == m1.g.next_unused
             IN  [m1 EXCEPT !.g.next_unused = idx + 1,
                            !.ret = idx,
                            !.stack = Without(@, idx)]
        ELSE on_out_of_memory(m1)

\* Variant: the freed segment is not linked to the rest of the free list.
free_segment_unlinked(m, idx) ==
    IF idx \notin SegIdx THEN OutOfBounds(m)
    ELSE [m EXCEPT !.s[idx].next = INVALID_INDEX,
                   !.g.free_list_head = idx,
                   !.stack = <<idx>> \o Without(@, idx)]

\* Variant: the two statements are swapped, so the segment links to itself.
free_segment_swapped(m, idx) ==
    IF idx \notin SegIdx THEN OutOfBounds(m)
    ELSE [m EXCEPT !.s[idx].next = idx,
                   !.g.free_list_head = idx,
                   !.stack = <<idx>> \o Without(@, idx)]

free_segment(m, idx) ==
    IF idx \notin SegIdx THEN OutOfBounds(m)
    ELSE [m EXCEPT !.s[idx].next = m.g.free_list_head,
                   !.g.free_list_head = idx,
                   !.stack = <<idx>> \o Without(@, idx)]

\* Variant: the scan runs from the last slot downward.
LastFreeSlot(d) ==
    CHOOSE j \in Slots :
        /\ d[j].in_use = 0
        /\ \A k \in Slots : k > j => d[k].in_use # 0

\* Lines 121-122: the scan from slot 0 upward stops at the first free descriptor.
FirstFreeSlot(d) ==
    CHOOSE j \in Slots :
        /\ d[j].in_use = 0
        /\ \A k \in Slots : k < j => d[k].in_use # 0

create_queue(m) ==
    IF \E i \in Slots : m.d[i].in_use = 0
    THEN LET i == FirstFreeSlot(m.d)
         IN  [m EXCEPT !.d[i] = [in_use |-> 1, head_segment |-> INVALID_INDEX,
                                 tail_segment |-> INVALID_INDEX,
                                 head_offset |-> 0, tail_offset |-> 0],
                       !.ret = i]
    ELSE [on_out_of_memory(m) EXCEPT !.ret = NullHandle]

\* The while loop of destroy_queue.  seen holds the loop states already
\* passed through: meeting one again means the loop never ends.
RECURSIVE DestroyLoop(_, _, _)
DestroyLoop(m, seg_idx, seen) ==
    LET key == <<seg_idx, m.s, m.g.free_list_head>>
    IN  IF seg_idx = INVALID_INDEX THEN m
        ELSE IF key \in seen THEN [m EXCEPT !.fault = "hang"]
        ELSE IF seg_idx \notin SegIdx THEN OutOfBounds(m)
        ELSE LET next == m.s[seg_idx].next
             IN  DestroyLoop(free_segment(m, seg_idx), next, seen \cup {key})

\* Variant: the in_use test is missing.
DestroyHandleInRange(d, q) == q \in Slots

\* Line 140: the pointer lies in the descriptor table and the descriptor is in use.
DestroyHandleOk(d, q) == q \in Slots /\ d[q].in_use # 0

destroy_queue(m, q) ==
    IF q = NullHandle THEN on_illegal_operation(m)
    ELSE IF ~DestroyHandleOk(m.d, q) THEN on_illegal_operation(m)
    ELSE LET m1 == DestroyLoop(m, m.d[q].head_segment, {})
         IN  IF m1.fault # "none" THEN m1
             ELSE [m1 EXCEPT !.d[q].in_use = 0]

\* Lines 159-165 of enqueue_byte: the first segment of an empty queue.
EnqueueFirstSegment(m, q) ==
    IF m.d[q].tail_segment = INVALID_INDEX
    THEN LET a == allocate_segment(m)
         IN  IF a.fault # "none" THEN a
             ELSE [a EXCEPT !.s[a.ret].next = INVALID_INDEX,
                            !.d[q].head_segment = a.ret,
                            !.d[q].tail_segment = a.ret,
                            !.d[q].head_offset = 0,
                            !.d[q].tail_offset = 0]
    ELSE m

\* Variant: the write cursor is not reset when the tail segment is replaced.
EnqueueNewTailKeepsCursor(m, q, t) ==
    IF m.d[q].tail_offset = SEG_PAYLOAD_SIZE
    THEN LET a == allocate_segment(m)
         IN  IF a.fault # "none" THEN a
             ELSE LET a1 == [a EXCEPT !.s[a.ret].next = INVALID_INDEX]
                      a2 == [a1 EXCEPT !.s[t].next = a.ret]
                  IN  [a2 EXCEPT !.d[q].tail_segment = a.ret]
    ELSE m

\* Lines 171-177 of enqueue_byte: the tail segment is full.
EnqueueNewTail(m, q, t) ==
    IF m.d[q].tail_offset = SEG_PAYLOAD_SIZE
    THEN LET a == allocate_segment(m)
         IN  IF a.fault # "none" THEN a
             ELSE LET a1 == [a EXCEPT !.s[a.ret].next = INVALID_INDEX]
                      a2 == [a1 EXCEPT !.s[t].next = a.ret]
                  IN  [a2 EXCEPT !.d[q].tail_segment = a.ret,
                                 !.d[q].tail_offset = 0]
    ELSE m

enqueue_byte(m, q, b) ==
    IF q = NullHandle THEN on_illegal_operation(m)
    ELSE IF m.d[q].in_use = 0 THEN on_illegal_operation(m)
    ELSE LET m1 == EnqueueFirstSegment(m, q)
         IN  IF m1.fault # "none" THEN m1
             ELSE LET t == m1.d[q].tail_segment
                      off == m1.d[q].tail_offset
                  IN  IF t \notin SegIdx \/ off >= SEG_PAYLOAD_SIZE THEN OutOfBounds(m1)
                      ELSE EnqueueNewTail([m1 EXCEPT !.s[t].data[off] = b,
                                                     !.d[q].tail_offset = off + 1], q, t)

\* Variant: the read ignores the read cursor.
DequeueReadFirst(s, h, off) == s[h].data[0]

\* Line 187: head.data[q->head_offset].
DequeueRead(s, h, off) == s[h].data[off]

dequeue_byte(m, q) ==
    IF q = NullHandle THEN on_illegal_operation(m)
    ELSE IF m.d[q].in_use = 0 THEN on_illegal_operation(m)
    ELSE IF m.d[q].head_segment = INVALID_INDEX THEN on_illegal_operation(m)
    ELSE LET h == m.d[q].head_segment
             off == m.d[q].head_offset
         IN  IF h \notin SegIdx \/ off >= SEG_PAYLOAD_SIZE THEN OutOfBounds(m)
             ELSE LET m1 == [m EXCEPT !.ret = DequeueRead(m.s, h, off),
                                      !.d[q].head_offset = off + 1]
                  IN  IF /\ m1.d[q].head_segment = m1.d[q].tail_segment
                         /\ m1.d[q].head_offset = m1.d[q].tail_offset
                      THEN LET f == free_segment(m1, h)
                           IN  [f EXCEPT !.d[q].head_segment = INVALID_INDEX,
                                         !.d[q].tail_segment = INVALID_INDEX,
                                         !.d[q].head_offset = 0,
                                         !.d[q].tail_offset = 0]
                      ELSE IF m1.d[q].head_offset = SEG_PAYLOAD_SIZE
                      THEN free_segment([m1 EXCEPT !.d[q].head_segment = m1.s[h].next,
                                                   !.d[q].head_offset = 0], h)
                      ELSE m1

----------------------------------------------------------------------------

NoPending == [i \in Slots |-> <<>>]
NoBytes == [i \in Slots |-> {}]

Init ==
    /\ descriptors = [i \in Slots |-> ZeroQ]
    /\ global_data = ZeroGlobalData
    /\ segments = [i \in SegIdx |-> ZeroSegment]
    /\ fault = "none"
    /\ pending = NoPending
    /\ everEnq = NoBytes
    /\ freeStack = <<>>
    /\ destroyed = [i \in Slots |-> FALSE]
    /\ legal = TRUE
    /\ last = [op |-> "start", q |-> NullHandle, ret |-> 0, stale |-> FALSE]

\* The call returned or the process exited: memory is as the call left it.
Commit(m) ==
    /\ descriptors' = m.d
    /\ global_data' = m.g
    /\ segments' = m.s
    /\ fault' = m.fault
    /\ freeStack' = m.stack

CreateQueue ==
    /\ fault = "none"
    /\ LET m == create_queue(Machine)
       IN  /\ Commit(m)
           /\ last' = [op |-> "create", q |-> m.ret, ret |-> m.ret, stale |-> FALSE]
           /\ IF m.fault = "none" /\ legal
              THEN /\ pending' = [pending EXCEPT ![m.ret] = <<>>]
                   /\ everEnq' = [everEnq EXCEPT ![m.ret] = {}]
              ELSE UNCHANGED <<pending, everEnq>>
           /\ UNCHANGED <<destroyed, legal>>

\* stale: the caller passes a handle it got from a create_queue whose queue
\* it has destroyed since.  The pointer is the same as any other to the slot.
DestroyQueue ==
    /\ fault = "none"
    /\ \E q \in Slots \cup {ForeignHandle, NullHandle}, stale \in BOOLEAN :
        LET m == destroy_queue(Machine, q)
        IN  /\ stale => (q \in Slots /\ destroyed[q])
            /\ Commit(m)
            /\ last' = [op |-> "destroy", q |-> q, ret |-> 0, stale |-> stale]
            /\ IF m.fault = "none"
               THEN /\ pending' = [pending EXCEPT ![q] = <<>>]
                    /\ destroyed' = [destroyed EXCEPT ![q] = TRUE]
               ELSE UNCHANGED <<pending, destroyed>>
            /\ UNCHANGED <<everEnq, legal>>

EnqueueByte ==
    /\ fault = "none"
    /\ \E q \in Slots \cup {NullHandle}, b \in Byte :
        LET m == enqueue_byte(Machine, q, b)
        IN  /\ Commit(m)
            /\ last' = [op |-> "enqueue", q |-> q, ret |-> 0, stale |-> FALSE]
            /\ IF m.fault = "none" /\ legal
               THEN /\ pending' = [pending EXCEPT ![q] = Append(@, b)]
                    /\ everEnq' = [everEnq EXCEPT ![q] = @ \cup {b}]
               ELSE UNCHANGED <<pending, everEnq>>
            /\ UNCHANGED <<destroyed, legal>>

\* A dequeue_byte that returns from a queue holding no byte ends the
\* histories pending and everEnq: from then on they are not kept.
DequeueByte ==
    /\ fault = "none"
    /\ \E q \in Slots \cup {NullHandle} :
        LET m == dequeue_byte(Machine, q)
        IN  /\ Commit(m)
            /\ last' = [op |-> "dequeue", q |-> q, ret |-> m.ret, stale |-> FALSE]
            /\ IF m.fault # "none" THEN UNCHANGED <<pending, everEnq, legal>>
               ELSE IF legal /\ pending[q] # <<>>
               THEN /\ pending' = [pending EXCEPT ![q] = Tail(@)]
                    /\ UNCHANGED <<everEnq, legal>>
               ELSE /\ pending' = NoPending
                    /\ everEnq' = NoBytes
                    /\ legal' = FALSE
            /\ UNCHANGED destroyed

Next == CreateQueue \/ DestroyQueue \/ EnqueueByte \/ DequeueByte

Spec == Init /\ [][Next]_vars

----------------------------------------------------------------------------
(* Derived views of the memory, used to state the properties.              *)

\* The segments met by following next links from start, in order, up to the
\* sentinel (or up to a segment met before, or an index outside the pool).
RECURSIVE ChainFrom(_, _, _)
ChainFrom(s, start, acc) ==
    IF start \notin SegIdx \/ \E i \in 1 .. Len(acc) : acc[i] = start THEN acc
    ELSE ChainFrom(s, s[start].next, Append(acc, start))

Range(seq) == {seq[i] : i \in 1 .. Len(seq)}

FreeListOf(g, s) == IF g.initialized = 0 THEN <<>> ELSE ChainFrom(s, g.free_list_head, <<>>)
FreeList == FreeListOf(global_data, segments)
FreeListEmpty == global_data.initialized = 0 \/ global_data.free_list_head = INVALID_INDEX
QueueChain(q) == ChainFrom(segments, descriptors[q].head_segment, <<>>)
InUse(q) == q \in Slots /\ descriptors[q].in_use = 1
EmptyQ == [in_use |-> 1, head_segment |-> INVALID_INDEX, tail_segment |-> INVALID_INDEX,
           head_offset |-> 0, tail_offset |-> 0]

\* The step just taken was this call on slot q.
Did(op, q) == last'.op = op /\ last'.q = q

----------------------------------------------------------------------------
(* C1: FIFO per queue.  While every dequeue_byte so far was issued on a    *)
(* queue holding at least one byte, a dequeue_byte on a queue holding      *)
(* bytes returns, and returns the oldest byte enqueued into that queue     *)
(* and not yet dequeued.                                                   *)
C1_Fifo ==
    [][\A q \in Slots :
        (legal /\ pending[q] # <<>> /\ Did("dequeue", q))
            => (fault' = "none" /\ last'.ret = Head(pending[q]))]_vars

\* A dequeue returned 1 from a queue whose remaining bytes <<0, ..>> lie in
\* two segments.
C1_Witness ==
    /\ legal /\ fault = "none" /\ last.op = "dequeue" /\ last.ret = 1
    /\ Len(pending[last.q]) >= 2 /\ Head(pending[last.q]) = 0
    /\ descriptors[last.q].head_segment # descriptors[last.q].tail_segment

(* C2: independence.  With two live queues, every byte a dequeue_byte      *)
(* returns without a fault was enqueued into that same queue.              *)
C2_Independence ==
    [][\A q \in Slots :
        (legal /\ Did("dequeue", q) /\ fault' = "none" /\ \A r \in Slots : InUse(r))
            => last'.ret \in everEnq[q]]_vars

(* C3: dequeue_byte on an in-use queue that holds no byte ends in the      *)
(* illegal-operation fault.                                                *)
C3_EmptyDequeueFaults ==
    [][\A q \in Slots :
        (legal /\ InUse(q) /\ pending[q] = <<>> /\ Did("dequeue", q))
            => fault' = "illegal"]_vars

(* C4: when dequeue_byte removes the last byte of a queue, the descriptor  *)
(* is afterwards Empty (head = tail = sentinel, offsets 0) and the queue   *)
(* owns no segment.                                                        *)
C4_LastByteLeavesEmpty ==
    [][\A q \in Slots :
        (legal /\ Len(pending[q]) = 1 /\ Did("dequeue", q) /\ fault' = "none")
            => descriptors'[q] = EmptyQ]_vars

(* C5: segment ownership.  Between calls, every segment below next_unused  *)
(* is on the free list or on the chain of exactly one in-use queue, and    *)
(* not on both.                                                            *)
Owners(x) ==
    (IF x \in Range(FreeList) THEN 1 ELSE 0)
    + Cardinality({q \in Slots : InUse(q) /\ x \in Range(QueueChain(q))})

C5_Ownership ==
    (fault = "none" /\ global_data.initialized = 1)
        => \A x \in SegIdx : x < global_data.next_unused => Owners(x) = 1

(* C5 while the callers keep to non-empty dequeues: ownership holds, so    *)
(* its failure above rests on the dequeue_byte of C3 and C4.               *)
C5_OwnershipWhileLegal == legal => C5_Ownership

C7_DoubleDestroyFaults ==
    [][(last'.op = "destroy" /\ last'.stale) => fault' = "illegal"]_vars

(* C7 amended: destroy_queue through a handle whose queue was already      *)
(* destroyed ends in the illegal-operation fault as long as no             *)
(* create_queue has handed the slot out again (its in_use is still 0).     *)
C7_DoubleDestroyFaultsUnlessRecycled ==
    [][(last'.op = "destroy" /\ last'.stale /\ descriptors[last'.q].in_use = 0)
        => (fault' = "illegal" /\ descriptors' = descriptors
            /\ segments' = segments /\ global_data' = global_data)]_vars

\* A second destroy of slot 0 faulted while slot 1 was in use and held bytes.
C7_Witness ==
    /\ last.op = "destroy" /\ last.stale /\ last.q = 0 /\ fault = "illegal"
    /\ descriptors[0].in_use = 0 /\ descriptors[1].in_use = 1 /\ pending[1] # <<>>

(* C8: destroy reclaims fully.  A destroy_queue that returns, on a queue   *)
(* owning k segments, lengthens the free list by exactly k, puts each of   *)
(* the k segments on it, keeps next_unused, clears in_use, and k           *)
(* allocate_segment calls then succeed without advancing next_unused.      *)
RECURSIVE AllocN(_, _)
AllocN(m, n) ==
    IF n = 0 \/ m.fault # "none" THEN m ELSE AllocN(allocate_segment(m), n - 1)

MachineAfter ==
    [d |-> descriptors', g |-> global_data', s |-> segments', fault |-> "none",
     stack |-> freeStack', ret |-> 0]

C8_DestroyReclaims ==
    [][\A q \in Slots :
        (InUse(q) /\ Did("destroy", q) /\ fault' = "none") =>
            LET k == Len(QueueChain(q))
                after == AllocN(MachineAfter, k)
            IN  /\ Len(FreeListOf(global_data', segments')) = Len(FreeList) + k
                /\ Range(QueueChain(q)) \subseteq Range(FreeListOf(global_data', segments'))
                /\ global_data'.next_unused = global_data.next_unused
                /\ descriptors'[q].in_use = 0
                /\ after.fault = "none"
                /\ after.g.next_unused = global_data.next_unused]_vars

\* A destroy_queue returned both segments of a two-segment queue.
C8_Witness ==
    /\ fault = "none" /\ last.op = "destroy" /\ last.q \in Slots
    /\ descriptors[last.q].in_use = 0
    /\ Len(FreeList) = 2 /\ freeStack = FreeList
    /\ FreeList[2] = descriptors[last.q].head_segment

(* C9: segment reuse is free-list-first and last-in-first-out.  When an    *)
(* enqueue_byte needs a segment while the free list is non-empty, the      *)
(* segment it gets is the one most recently freed and not re-allocated     *)
(* since, and next_unused stays.                                           *)
NeedsSegment(q) ==
    \/ descriptors[q].tail_segment = INVALID_INDEX
    \/ descriptors[q].tail_offset + 1 = SEG_PAYLOAD_SIZE

C9_LifoReuse ==
    [][\A q \in Slots :
        (InUse(q) /\ Did("enqueue", q) /\ NeedsSegment(q) /\ ~FreeListEmpty) =>
            /\ fault' = "none"
            /\ freeStack # <<>>
            /\ descriptors'[q].tail_segment = Head(freeStack)
            /\ global_data'.next_unused = global_data.next_unused]_vars

(* C9 while the callers keep to non-empty dequeues.                        *)
C9_LifoReuseWhileLegal ==
    [][\A q \in Slots :
        (legal /\ legal' /\ InUse(q) /\ Did("enqueue", q) /\ NeedsSegment(q) /\ ~FreeListEmpty) =>
            /\ fault' = "none"
            /\ freeStack # <<>>
            /\ descriptors'[q].tail_segment = Head(freeStack)
            /\ global_data'.next_unused = global_data.next_unused]_vars

(* C10: pool exhaustion is detected.  enqueue_byte on an in-use queue ends *)
(* in the out-of-memory fault exactly when it needs a new segment while    *)
(* the free list is empty and next_unused = SEGMENT_COUNT, and it never    *)
(* indexes the pool with the sentinel or an index >= SEGMENT_COUNT.        *)
C10_ExhaustionDetected ==
    [][\A q \in Slots :
        (InUse(q) /\ Did("enqueue", q)) =>
            /\ fault' = "oom" <=>
                  /\ NeedsSegment(q)
                  /\ FreeListEmpty
                  /\ global_data.initialized = 1
                  /\ global_data.next_unused = SEGMENT_COUNT
            /\ fault' \in {"none", "oom"}
            /\ fault' = "none" =>
                  /\ descriptors'[q].head_segment \in SegIdx \cup {INVALID_INDEX}
                  /\ descriptors'[q].tail_segment \in SegIdx]_vars

\* An enqueue_byte that filled the tail segment found the pool used up.
C10_Witness ==
    /\ fault = "oom" /\ last.op = "enqueue"
    /\ descriptors[last.q].tail_offset = SEG_PAYLOAD_SIZE
    /\ global_data.next_unused = SEGMENT_COUNT

(* C11: enqueue_byte, dequeue_byte and destroy_queue on a descriptor slot  *)
(* whose in_use is 0 end in the illegal-operation fault and leave every    *)
(* descriptor, every segment and the allocator state as they were.         *)
C11_NotInUseFaultsFirst ==
    [][\A q \in Slots :
        (descriptors[q].in_use = 0 /\ last'.q = q
         /\ last'.op \in {"enqueue", "dequeue", "destroy"}) =>
            /\ fault' = "illegal"
            /\ descriptors' = descriptors
            /\ segments' = segments
            /\ global_data' = global_data]_vars

\* An enqueue_byte on a destroyed and not re-created slot faulted while the
\* other queue held bytes and the free list held a segment.
C11_Witness ==
    /\ fault = "illegal" /\ last.op = "enqueue" /\ last.q \in Slots
    /\ destroyed[last.q] /\ descriptors[last.q].in_use = 0
    /\ \E r \in Slots : InUse(r) /\ pending[r] # <<>>
    /\ ~FreeListEmpty

(* C12: cursor bounds.  Between calls every in-use queue has tail_offset   *)
(* and head_offset below SEG_PAYLOAD_SIZE, and no call reads or writes a   *)
(* payload position outside the segment.                                   *)
C12_CursorBounds ==
    /\ fault # "oob"
    /\ fault = "none" =>
          \A q \in Slots : InUse(q) =>
              /\ descriptors[q].tail_offset \in 0 .. (SEG_PAYLOAD_SIZE - 1)
              /\ descriptors[q].head_offset \in 0 .. (SEG_PAYLOAD_SIZE - 1)

\* An enqueue_byte just filled a segment: the tail is a fresh segment with
\* cursor 0 while the head segment is still full.
C12_Witness ==
    /\ legal /\ fault = "none" /\ last.op = "enqueue" /\ InUse(last.q)
    /\ descriptors[last.q].tail_offset = 0
    /\ descriptors[last.q].head_segment # descriptors[last.q].tail_segment
    /\ Len(pending[last.q]) = SEG_PAYLOAD_SIZE

(* C13: bump pointer.  Once the allocator is initialised next_unused never *)
(* decreases and never exceeds SEGMENT_COUNT; it grows by one, and only in *)
(* an enqueue_byte (the caller of allocate_segment) made while the free    *)
(* list is empty; create_queue, dequeue_byte and destroy_queue keep it.    *)
C13_BumpPointer ==
    [][/\ global_data'.initialized = 1 => global_data'.next_unused \in 0 .. SEGMENT_COUNT
       /\ global_data.initialized = 1 => global_data'.initialized = 1
       /\ global_data'.next_unused >= global_data.next_unused
       /\ global_data'.next_unused # global_data.next_unused =>
             /\ global_data'.next_unused = global_data.next_unused + 1
             /\ last'.op = "enqueue"
             /\ FreeListEmpty
       /\ last'.op \in {"create", "dequeue", "destroy"} =>
             global_data'.next_unused = global_data.next_unused]_vars

\* The pool is at its ceiling and a dequeue_byte has just freed a segment.
C13_Witness ==
    /\ fault = "none" /\ last.op = "dequeue"
    /\ global_data.next_unused = SEGMENT_COUNT
    /\ freeStack # <<>> /\ global_data.free_list_head = Head(freeStack)

(* C14: frame.  A call on slot q changes no other descriptor, and          *)
(* destroy_queue(q) changes neither the payload nor the next link of a     *)
(* segment on the chain of another in-use queue.                           *)
C14_Frame ==
    [][\A q \in Slots : \A r \in Slots \ {q} :
        (last'.q = q /\ last'.op \in {"enqueue", "dequeue", "destroy"}) =>
            /\ descriptors'[r] = descriptors[r]
            /\ (last'.op = "destroy" /\ InUse(r)) =>
                  \A x \in Range(QueueChain(r)) : segments'[x] = segments[x]]_vars

\* destroy_queue freed the segment of slot 0 while slot 1 held a byte in
\* its own segment.
C14_Witness ==
    /\ legal /\ fault = "none" /\ last.op = "destroy" /\ last.q = 0
    /\ descriptors[0].in_use = 0 /\ InUse(1)
    /\ pending[1] # <<>> /\ Len(QueueChain(1)) = 1 /\ Len(FreeList) = 1

(* C15: head/tail consistency.  Between calls every in-use descriptor has  *)
(* head_segment = sentinel exactly when tail_segment = sentinel, and       *)
(* otherwise the tail segment is reached from the head segment along the   *)
(* next links.                                                             *)
C15_HeadTailConsistent ==
    fault = "none" =>
        \A q \in Slots : InUse(q) =>
            /\ descriptors[q].head_segment = INVALID_INDEX
                  <=> descriptors[q].tail_segment = INVALID_INDEX
            /\ descriptors[q].head_segment # INVALID_INDEX
                  => descriptors[q].tail_segment \in Range(QueueChain(q))

(* C15 while the callers keep to non-empty dequeues.                       *)
C15_HeadTailConsistentWhileLegal == legal => C15_HeadTailConsistent

(* C16: index validity.  Between calls free_list_head (once initialised),  *)
(* the head and tail of every in-use descriptor and the next link of every *)
(* segment on the free list or on a queue chain are the sentinel or an     *)
(* index below next_unused, and no call indexes the pool outside it.       *)
ValidIndex(i) == i = INVALID_INDEX \/ (i \in SegIdx /\ i < global_data.next_unused)

C16_IndexValidity ==
    /\ fault # "oob"
    /\ global_data.next_unused \in 0 .. SEGMENT_COUNT
    /\ fault = "none" =>
          /\ global_data.initialized = 1 => ValidIndex(global_data.free_list_head)
          /\ \A x \in Range(FreeList) : ValidIndex(segments[x].next)
          /\ \A q \in Slots : InUse(q) =>
                /\ ValidIndex(descriptors[q].head_segment)
                /\ ValidIndex(descriptors[q].tail_segment)
                /\ \A x \in Range(QueueChain(q)) : ValidIndex(segments[x].next)

\* Every segment is in use or free: a two-segment free list next to nothing,
\* or a queue chain, with next_unused at the ceiling.
C16_Witness ==
    /\ fault = "none" /\ global_data.next_unused = SEGMENT_COUNT
    /\ \E q \in Slots : InUse(q) /\ Len(QueueChain(q)) = 1 /\ Len(FreeList) = 1
                        /\ segments[FreeList[1]].next = INVALID_INDEX

(* C17: destroy_queue terminates.  Between calls the chain from the head   *)
(* of every in-use queue and the free list end at the sentinel without     *)
(* meeting a segment twice, and the loop of destroy_queue always ends.     *)
RECURSIVE ChainEnd(_, _, _)
ChainEnd(s, start, seen) ==
    IF start \notin SegIdx \/ start \in seen THEN start
    ELSE ChainEnd(s, s[start].next, seen \cup {start})

C17_ChainsEnd ==
    /\ fault # "hang"
    /\ fault = "none" =>
          /\ global_data.initialized = 1 =>
                ChainEnd(segments, global_data.free_list_head, {}) = INVALID_INDEX
          /\ \A q \in Slots : InUse(q) =>
                /\ ChainEnd(segments, descriptors[q].head_segment, {}) = INVALID_INDEX
                /\ Len(QueueChain(q)) <= SEGMENT_COUNT

(* C17 while the callers keep to non-empty dequeues.                       *)
C17_ChainsEndWhileLegal == legal => C17_ChainsEnd

\* destroy_queue walked a chain of two segments to its end.
C17_Witness ==
    /\ legal /\ fault = "none" /\ last.op = "destroy" /\ last.q \in Slots
    /\ descriptors[last.q].in_use = 0 /\ destroyed[last.q]
    /\ Len(FreeList) = SEGMENT_COUNT
    /\ \E r \in Slots : InUse(r)

(* C18: usable capacity.  With one live queue on a pool of which it holds  *)
(* every segment handed out so far and from which nothing was dequeued,    *)
(* enqueue_byte succeeds while the queue holds fewer than                  *)
(* SEGMENT_COUNT * SEG_PAYLOAD_SIZE - 1 bytes and ends in the              *)
(* out-of-memory fault when it holds that many; no queue ever holds        *)
(* SEGMENT_COUNT * SEG_PAYLOAD_SIZE bytes.                                 *)
Capacity == SEGMENT_COUNT * SEG_PAYLOAD_SIZE - 1

OnlyQueueOnFreshPool(q) ==
    /\ legal /\ InUse(q) /\ \A r \in Slots \ {q} : ~InUse(r)
    /\ FreeListEmpty
    /\ descriptors[q].head_offset = 0
    /\ global_data.next_unused = Len(QueueChain(q))
    /\ Len(pending[q]) = (IF descriptors[q].tail_segment = INVALID_INDEX THEN 0
                          ELSE (Len(QueueChain(q)) - 1) * SEG_PAYLOAD_SIZE
                               + descriptors[q].tail_offset)

C18_UsableCapacity ==
    [][/\ \A q \in Slots : legal' => Len(pending'[q]) <= Capacity
       /\ \A q \in Slots :
            (OnlyQueueOnFreshPool(q) /\ Did("enqueue", q)) =>
                IF Len(pending[q]) < Capacity
                THEN fault' = "none" /\ Len(pending'[q]) = Len(pending[q]) + 1
                ELSE fault' = "oom"]_vars

\* The enqueue_byte after SEGMENT_COUNT * SEG_PAYLOAD_SIZE - 1 successful
\* ones found the pool used up, the slot never having been destroyed.
C18_Witness ==
    /\ fault = "oom" /\ last.op = "enqueue" /\ legal
    /\ Len(pending[last.q]) = Capacity
    /\ \A r \in Slots : ~destroyed[r] /\ (InUse(r) <=> r = last.q)
    /\ Len(QueueChain(last.q)) = SEGMENT_COUNT

====
